---- MODULE Spec2Model ----
(***************************************************************************)
(* Collectible aggregation engine of the Torus wallet:                     *)
(*   AssetsDetectionController (polling scheduler, source adapters, merge   *)
(*   of the per-source results) and AssetController (normalisation and the  *)
(*   per-(address, network) store).                                         *)
(*                                                                         *)
(* JavaScript values are modelled as strings: "undefined" and "null" are    *)
(* the two absent values, numerals are numbers.  A detection cycle is a     *)
(* process that is suspended only at the awaits of the code; the steps      *)
(* between two awaits are atomic, as on the JavaScript event loop.          *)
(***************************************************************************)
EXTENDS Integers, Sequences, FiniteSets, TLC

-----------------------------------------------------------------------------
(* JavaScript values                                                        *)

UNDEFINED == "undefined"

NULL == "null"

\* truthiness of a value: undefined, null, '' and the number 0 are falsy
Truthy(v) == v \notin {UNDEFINED, NULL, "", "0"}

\* a || b
OrElse(a, b) == IF Truthy(a) THEN a ELSE b

-----------------------------------------------------------------------------
(* Program constants                                                        *)

DEFAULT_INTERVAL == 60000

CONTRACT_TYPE_ERC721 == "erc721"

CONTRACT_TYPE_ERC1155 == "erc1155"

MAINNET == "mainnet"

MATIC == "matic"

BSC_MAINNET == "bsc_mainnet"

\* the networks with a Covalent chain id (keys of NFT_SUPPORTED_NETWORKS)
NFT_SUPPORTED_NETWORKS == {MAINNET, MATIC, BSC_MAINNET}

SUPPORTED_NFT_STANDARDS == {CONTRACT_TYPE_ERC1155, CONTRACT_TYPE_ERC721}

\* utils.isMain: the controller runs in the main frame
isMain == TRUE

-----------------------------------------------------------------------------
(* String conversions, by their effect on the strings of the model          *)

LowerTable ==
  [s \in {"0xAA", "0xAa", "0xaa"} |-> "0xaa"] @@
  [s \in {"0xBB", "0xBb", "0xbb"} |-> "0xbb"] @@
  [s \in {"0xCC", "0xCc", "0xcc"} |-> "0xcc"] @@
  [s \in {"ERC721", "erc721"} |-> "erc721"] @@
  [s \in {"ERC1155", "erc1155"} |-> "erc1155"] @@
  [s \in {"ERC20", "erc20"} |-> "erc20"]

\* String.prototype.toLowerCase
Lower(s) == IF s \in DOMAIN LowerTable THEN LowerTable[s] ELSE s

ChecksumTable ==
  [s \in {"0xAA", "0xAa", "0xaa"} |-> "0xAa"] @@
  [s \in {"0xBB", "0xBb", "0xbb"} |-> "0xBb"] @@
  [s \in {"0xCC", "0xCc", "0xcc"} |-> "0xCc"]

\* web3-utils isAddress
isAddress(s) == s \in DOMAIN ChecksumTable

\* web3-utils toChecksumAddress
toChecksumAddress(s) == ChecksumTable[s]

\* s.replace('=s60', '=s240')
ReplaceS60(s) == IF s = "logo=s60" THEN "logo=s240" ELSE s

-----------------------------------------------------------------------------
(* Sequence helpers                                                         *)

SeqMap(F(_), s) == [i \in 1..Len(s) |-> F(s[i])]

Indices(s) == [i \in 1..Len(s) |-> i]

RECURSIVE Flatten(_)
Flatten(ss) == IF ss = <<>> THEN <<>> ELSE Head(ss) \o Flatten(Tail(ss))

Range(s) == {s[i] : i \in 1..Len(s)}

\* arr.reduce((acc, x) => { acc[K(x)] = x; return acc }, {}) as the sequence
\* of the object's values in Object.keys order: a key keeps the position of
\* its first assignment and holds the value of its last one
ObjectFromArray(arr, K(_)) ==
  LET First(i) == \A j \in 1..(i - 1) : K(arr[j]) # K(arr[i])
      Last(i) == CHOOSE j \in i..Len(arr) :
                   /\ K(arr[j]) = K(arr[i])
                   /\ \A k \in (j + 1)..Len(arr) : K(arr[k]) # K(arr[i])
  IN  SeqMap(LAMBDA i : arr[Last(i)], SelectSeq(Indices(arr), First))

-----------------------------------------------------------------------------
(* Inputs: what the preferences store and the two provider APIs can hold    *)

\* custom NFT entries of the preferences store (user-supplied)
CustomUpper ==
  [nft_address |-> "0xAA", nft_id |-> "1", nft_contract_standard |-> "ERC721",
   network |-> MAINNET, description |-> "zdesc", nft_image_link |-> "zimg",
   nft_name |-> "Zed"]

\* the same contract and token as CustomUpper, entered a second time with the
\* address in lower case and another name
CustomLower ==
  [nft_address |-> "0xaa", nft_id |-> "1", nft_contract_standard |-> "ERC721",
   network |-> MAINNET, description |-> "zdesc", nft_image_link |-> "zimg",
   nft_name |-> "Zed2"]

\* an entry without a name, on the other network
CustomBsc ==
  [nft_address |-> "0xbb", nft_id |-> "1", nft_contract_standard |-> "ERC1155",
   network |-> BSC_MAINNET, description |-> "ydesc", nft_image_link |-> "yimg",
   nft_name |-> UNDEFINED]

\* an item of response.data.data.items of the Covalent balances API
CovAlpha ==
  [type |-> "nft", contract_name |-> "Alpha", contract_ticker_symbol |-> "ALP",
   contract_address |-> "0xaa", logo_url |-> "logoA",
   nft_data |-> << [token_id |-> "1", token_balance |-> "1",
                    external_data |-> [name |-> "a1", description |-> "descA",
                                       image |-> "imgA"],
                    supports_erc |-> {"erc20", "erc721"}] >>]

\* a contract holding two ERC1155 tokens, without external data
CovBeta ==
  [type |-> "nft", contract_name |-> "Beta", contract_ticker_symbol |-> "BET",
   contract_address |-> "0xbb", logo_url |-> "logoB",
   nft_data |-> << [token_id |-> "1", token_balance |-> "2",
                    external_data |-> [name |-> UNDEFINED, description |-> UNDEFINED,
                                       image |-> UNDEFINED],
                    supports_erc |-> {"erc20", "erc1155"}],
                   [token_id |-> "2", token_balance |-> "1",
                    external_data |-> [name |-> "b2", description |-> UNDEFINED,
                                       image |-> "imgB2"],
                    supports_erc |-> {"erc20", "erc1155"}] >>]

\* an ERC721 token reported with a balance of 2
CovEpsilon ==
  [type |-> "nft", contract_name |-> "Eps", contract_ticker_symbol |-> "EPS",
   contract_address |-> "0xcc", logo_url |-> "logoE",
   nft_data |-> << [token_id |-> "4", token_balance |-> "2",
                    external_data |-> [name |-> "e4", description |-> "descE",
                                       image |-> "imgE"],
                    supports_erc |-> {"erc20", "erc721"}] >>]

\* a fungible balance in the same response
CovFungible ==
  [type |-> "cryptocurrency", contract_name |-> "Coin", contract_ticker_symbol |-> "CN",
   contract_address |-> "0xcc", logo_url |-> "logoC", nft_data |-> << >>]

\* an asset of the OpenSea assets API: same contract and token as CovAlpha,
\* the address in upper case, no description
OsAlpha ==
  [token_id |-> "1", image_url |-> "imgOS", name |-> "os1", description |-> NULL,
   asset_contract |-> [schema_name |-> "ERC721", address |-> "0xAA",
                       name |-> "AlphaOS", symbol |-> "AOS", image_url |-> "logo=s60",
                       total_supply |-> "10", description |-> "cdescOS"]]

\* an asset without name, image and contract symbol
OsGamma ==
  [token_id |-> "1", image_url |-> "", name |-> NULL, description |-> "gdesc",
   asset_contract |-> [schema_name |-> "ERC1155", address |-> "0xcc",
                       name |-> "Gamma", symbol |-> "", image_url |-> UNDEFINED,
                       total_supply |-> "5", description |-> UNDEFINED]]

\* an ERC1155 asset with a name and an image of its own
OsDelta ==
  [token_id |-> "7", image_url |-> "imgD", name |-> "d7", description |-> "ddesc",
   asset_contract |-> [schema_name |-> "ERC1155", address |-> "0xbb",
                       name |-> "Delta", symbol |-> "DLT", image_url |-> "logo=s60",
                       total_supply |-> "3", description |-> "cdescD"]]

\* an asset of a standard that is not supported
OsFungible ==
  [token_id |-> "9", image_url |-> "imgF", name |-> "f9", description |-> "fdesc",
   asset_contract |-> [schema_name |-> "ERC20", address |-> "0xcc",
                       name |-> "Coin", symbol |-> "CN", image_url |-> "logo=s60",
                       total_supply |-> "1", description |-> "cdescF"]]

\* what tokenInstance.getNftMetadata() resolves to
MetaFull == [ok |-> TRUE, decription |-> UNDEFINED, nftImageLink |-> "mimg", nftName |-> "Meta"]

\* getNftMetadata() rejects
MetaThrow == [ok |-> FALSE, decription |-> UNDEFINED, nftImageLink |-> UNDEFINED, nftName |-> UNDEFINED]

-----------------------------------------------------------------------------
(* Source adapters (AssetsDetectionController)                              *)

\* the index key of the three collectiblesMap objects
CollectibleIndexOf(contractAddress, tokenID) == Lower(contractAddress) \o "_" \o tokenID

IndexOf(c) == CollectibleIndexOf(c.contractAddress, c.tokenID)

Indexes(arr) == {IndexOf(arr[i]) : i \in 1..Len(arr)}

\* the value stored in a collectiblesMap under key k
Lookup(map, k) == map[CHOOSE i \in 1..Len(map) : IndexOf(map[i]) = k]

\* getCustomNfts: the entries of the active network
CurrentNetworkTokens(customNfts, localNetwork) ==
  LET OnNetwork(x) == x.network = localNetwork
  IN  SelectSeq(customNfts, OnNetwork)

\* getCustomNfts: whether the callback of entry x returns a collectible, for
\* the balance and the metadata its lookups produced
CustomOwned(x, out) ==
  /\ out.balance \notin {"throw", "0"}
  /\ (~Truthy(x.description) \/ ~Truthy(x.nft_image_link) \/ ~Truthy(x.nft_name))
       => out.meta.ok

\* getCustomNfts: the collectible built from entry x
CustomCollectible(x, out) ==
  LET missing == ~Truthy(x.description) \/ ~Truthy(x.nft_image_link) \/ ~Truthy(x.nft_name)
      description == IF missing THEN out.meta.decription ELSE x.description
      nft_image_link == IF missing THEN out.meta.nftImageLink ELSE x.nft_image_link
      nft_name == IF missing THEN out.meta.nftName ELSE x.nft_name
  IN  [contractAddress |-> x.nft_address,
       tokenID |-> x.nft_id,
       options |-> [contractName |-> nft_name,
                    contractSymbol |-> nft_name,
                    contractImage |-> nft_image_link,
                    contractFallbackLogo |-> nft_image_link,
                    standard |-> Lower(x.nft_contract_standard),
                    contractDescription |-> description,
                    description |-> description,
                    image |-> nft_image_link,
                    name |-> nft_name \o "#" \o x.nft_id,
                    tokenBalance |-> out.balance]]

\* getCustomNfts: nonZeroTokens, for the outcomes outs[i] of the lookups of tokens[i]
NonZeroTokens(tokens, outs) ==
  LET Owned(i) == CustomOwned(tokens[i], outs[i])
  IN  SeqMap(LAMBDA i : CustomCollectible(tokens[i], outs[i]),
             SelectSeq(Indices(tokens), Owned))

\* detectCollectiblesFromCovalent: contractName after the first i records of the item
RECURSIVE CovalentContractName(_, _, _)
CovalentContractName(item, protocolPrefix, i) ==
  IF i = 0 THEN item.contract_name
  ELSE CovalentContractName(item, protocolPrefix, i - 1) \o " (" \o protocolPrefix
         \o (IF "erc1155" \in item.nft_data[i].supports_erc THEN "1155" ELSE "721") \o ")"

\* detectCollectiblesFromCovalent: collectibleDetails of record i of an item
CovalentCollectible(item, protocolPrefix, i) ==
  LET nft == item.nft_data[i]
      contractName == CovalentContractName(item, protocolPrefix, i)
      imageOf(n) == OrElse(n.external_data.image, "/images/nft-placeholder.svg")
  IN  [contractAddress |-> item.contract_address,
       tokenID |-> nft.token_id,
       options |-> [contractName |-> contractName,
                    contractSymbol |-> item.contract_ticker_symbol,
                    contractImage |-> item.logo_url,
                    contractFallbackLogo |-> imageOf(item.nft_data[1]),
                    standard |-> IF "erc1155" \in nft.supports_erc
                                 THEN CONTRACT_TYPE_ERC1155 ELSE CONTRACT_TYPE_ERC721,
                    contractDescription |-> "",
                    description |-> nft.external_data.description,
                    image |-> imageOf(nft),
                    name |-> OrElse(nft.external_data.name,
                                    contractName \o "#" \o nft.token_id),
                    tokenBalance |-> nft.token_balance]]

\* detectCollectiblesFromCovalent: the array `collectibles` built from the response
CovalentCollectibles(apiCollectibles, network) ==
  LET protocolPrefix == IF network = BSC_MAINNET THEN "BEP" ELSE "ERC"
      OfItem(item) == IF item.type = "nft"
                      THEN [i \in 1..Len(item.nft_data) |->
                              CovalentCollectible(item, protocolPrefix, i)]
                      ELSE << >>
  IN  Flatten(SeqMap(OfItem, apiCollectibles))

\* detectCollectiblesFromOpensea: the collectible built from one asset
OpenseaCollectible(a) ==
  LET c == a.asset_contract
      contractImage == IF c.image_url = UNDEFINED THEN "" ELSE c.image_url
  IN  [contractAddress |-> c.address,
       tokenID |-> a.token_id,
       options |-> [standard |-> Lower(c.schema_name),
                    description |-> a.description,
                    image |-> OrElse(a.image_url, ReplaceS60(OrElse(contractImage, ""))),
                    name |-> OrElse(a.name, c.name \o "#" \o a.token_id),
                    contractAddress |-> c.address,
                    contractName |-> c.name,
                    contractSymbol |-> c.symbol,
                    contractImage |-> OrElse(ReplaceS60(OrElse(contractImage, "")), a.image_url),
                    contractSupply |-> c.total_supply,
                    contractDescription |-> c.description]]

\* detectCollectiblesFromOpensea: finalCollectibles built from the response
OpenseaCollectibles(apiCollectibles) ==
  LET Supported(a) == Lower(a.asset_contract.schema_name) \in SUPPORTED_NFT_STANDARDS
  IN  SeqMap(OpenseaCollectible, SelectSeq(apiCollectibles, Supported))

\* the collectiblesMap an adapter returns with its array
CollectiblesMap(collectibles) == ObjectFromArray(collectibles, IndexOf)

-----------------------------------------------------------------------------
(* Merge of the three sources (detectCollectibles)                          *)

\* deepmerge of two objects whose values are not objects: every key of the
\* source overrides the target, whatever its value
DeepMergeFlat(target, source) ==
  [k \in DOMAIN target \cup DOMAIN source |->
     IF k \in DOMAIN source THEN source[k] ELSE target[k]]

\* a merge in which the target keeps the keys it has
DeepMergeTargetWins(target, source) ==
  [k \in DOMAIN target \cup DOMAIN source |->
     IF k \notin DOMAIN target THEN source[k]
     ELSE IF k \in DOMAIN source /\ k = "options"
          THEN DeepMergeFlat(source[k], target[k])
          ELSE target[k]]

\* deepmerge(target, source) of two collectibles: `options` is the one
\* property that is an object on both sides and is merged recursively
DeepMerge(target, source) ==
  [k \in DOMAIN target \cup DOMAIN source |->
     IF k \notin DOMAIN source THEN target[k]
     ELSE IF k \in DOMAIN target /\ k = "options"
          THEN DeepMergeFlat(target[k], source[k])
          ELSE source[k]]

\* a final list that does not drop the provider entries of the custom keys
FinalArrAllKeys(customNftArr, customKeys, openseaCollectiblesMap, covalentCollectiblesMap, both) ==
  LET FromOpensea(o) ==
        IF IndexOf(o) \in Indexes(covalentCollectiblesMap)
        THEN DeepMerge(Lookup(covalentCollectiblesMap, IndexOf(o)), o)
        ELSE o
  IN  IF both /\ Len(openseaCollectiblesMap) > 0
      THEN customNftArr \o SeqMap(FromOpensea, openseaCollectiblesMap)
      ELSE customNftArr \o covalentCollectiblesMap

\* a final list that takes the result of OpenSea even when it is empty
FinalArrNoFallback(customNftArr, customKeys, openseaCollectiblesMap, covalentCollectiblesMap, both) ==
  LET NotCustom(c) == IndexOf(c) \notin customKeys
      FromOpensea(o) ==
        IF IndexOf(o) \in Indexes(covalentCollectiblesMap)
        THEN DeepMerge(Lookup(covalentCollectiblesMap, IndexOf(o)), o)
        ELSE o
  IN  IF both
      THEN customNftArr \o SeqMap(FromOpensea, SelectSeq(openseaCollectiblesMap, NotCustom))
      ELSE customNftArr \o SelectSeq(covalentCollectiblesMap, NotCustom)

\* detectCollectibles: finalArr, from the custom array and the key set of
\* customCollectiblesMap, the two provider maps, and whether the branch of
\* isMainnet() || isMatic() was taken
FinalArr(customNftArr, customKeys, openseaCollectiblesMap, covalentCollectiblesMap, both) ==
  LET NotCustom(c) == IndexOf(c) \notin customKeys
      FromOpensea(o) ==
        IF IndexOf(o) \in Indexes(covalentCollectiblesMap)
        THEN DeepMerge(Lookup(covalentCollectiblesMap, IndexOf(o)), o)
        ELSE o
  IN  IF both /\ Len(openseaCollectiblesMap) > 0
      THEN customNftArr \o SeqMap(FromOpensea, SelectSeq(openseaCollectiblesMap, NotCustom))
      ELSE customNftArr \o SelectSeq(covalentCollectiblesMap, NotCustom)

-----------------------------------------------------------------------------
(* Normalisation (AssetController)                                          *)

\* what the chain and the metadata API answer for one contract during one
\* addCollectibles call: checkNftStandard, getAssetName / getAssetSymbol,
\* the token URI document, getErc1155Balance, and the Covalent metadata API
ChainGood ==
  [probe |-> CONTRACT_TYPE_ERC721, assetName |-> "OnChain", assetSymbol |-> "OC",
   uriOk |-> TRUE, uriName |-> "uname", uriImage |-> "uimg", erc1155Balance |-> "1",
   apiOk |-> TRUE, apiName |-> "ApiName", apiSymbol |-> "API", apiLogo |-> "apilogo",
   apiTokenName |-> "aname", apiTokenImage |-> "aimg", apiErc1155 |-> FALSE]

ChainMulti == [ChainGood EXCEPT !.probe = CONTRACT_TYPE_ERC1155, !.erc1155Balance = "2",
                                !.apiErc1155 = TRUE]

ChainMultiNoBalance == [ChainMulti EXCEPT !.erc1155Balance = "throw"]

ChainNoSymbol == [ChainGood EXCEPT !.assetSymbol = "", !.apiSymbol = NULL]

ChainDown == [ChainGood EXCEPT !.probe = "throw", !.uriOk = FALSE, !.apiOk = FALSE,
                               !.erc1155Balance = "throw"]

ChainOracles == {ChainGood, ChainMulti, ChainMultiNoBalance, ChainNoSymbol, ChainDown}

\* the object {} of a lookup that failed: every property reads undefined
NoContractInfo ==
  [standard |-> UNDEFINED, address |-> UNDEFINED, description |-> UNDEFINED,
   logo |-> UNDEFINED, name |-> UNDEFINED, symbol |-> UNDEFINED]

\* getCollectibleContractInformation
GetCollectibleContractInformation(detectFromApi, o) ==
  IF o.probe = "throw" THEN NoContractInfo
  ELSE IF detectFromApi /\ ~o.apiOk THEN NoContractInfo
  ELSE IF detectFromApi /\ Truthy(o.apiName) /\ Truthy(o.apiSymbol)
       THEN [NoContractInfo EXCEPT !.name = o.apiName, !.symbol = o.apiSymbol,
                                   !.logo = o.apiLogo, !.standard = o.probe]
       ELSE [NoContractInfo EXCEPT !.name = o.assetName, !.symbol = o.assetSymbol,
                                   !.standard = o.probe]

\* _normalizeContractDetails
NormalizeContractDetails(d, detectFromApi, o) ==
  LET _contractAddress == IF isAddress(d.contractAddress)
                          THEN toChecksumAddress(d.contractAddress) ELSE d.contractAddress
      fetched == GetCollectibleContractInformation(detectFromApi, o)
      info == IF Truthy(d.contractName) /\ Truthy(d.contractSymbol) /\ Truthy(d.standard)
              THEN [standard |-> d.standard, address |-> _contractAddress,
                    description |-> OrElse(d.contractDescription, ""),
                    logo |-> d.contractImage, name |-> d.contractName,
                    symbol |-> d.contractSymbol]
              ELSE [fetched EXCEPT !.logo = OrElse(fetched.logo, d.contractImage),
                                   !.address = _contractAddress,
                                   !.description = OrElse(d.contractDescription, "")]
  IN  IF Truthy(info.standard) THEN info
      ELSE IF o.probe = "throw" THEN NoContractInfo
      ELSE [info EXCEPT !.standard = o.probe]

\* a _normalizeContractDetails whose promise rejects when the standard probe
\* throws
NormalizeContractRejectsOnProbe(d, detectFromApi, o) ==
  /\ ~(Truthy(d.contractName) /\ Truthy(d.contractSymbol) /\ Truthy(d.standard))
  /\ o.probe = "throw"

\* whether the promise of _normalizeContractDetails rejects: every lookup it
\* awaits is inside a try block, so it never does
NormalizeContractRejects(d, detectFromApi, o) == FALSE

\* whether _normalizeContractDetails awaits a lookup
ContractNeedsLookup(d) ==
  ~(Truthy(d.contractName) /\ Truthy(d.contractSymbol) /\ Truthy(d.standard))

\* the object {} that getCollectibleInfo returns when a lookup fails
NoCollectibleInfo ==
  [has |-> FALSE, name |-> UNDEFINED, image |-> UNDEFINED, description |-> UNDEFINED,
   tokenBalance |-> UNDEFINED, standard |-> UNDEFINED]

\* getCollectibleInformationFromTokenURI
GetCollectibleInformationFromTokenURI(o) ==
  IF \/ o.probe = "throw"
     \/ ~o.uriOk
     \/ (o.probe # CONTRACT_TYPE_ERC721 /\ o.erc1155Balance = "throw")
  THEN NoCollectibleInfo
  ELSE [has |-> TRUE, name |-> o.uriName, image |-> o.uriImage, description |-> "",
        tokenBalance |-> IF o.probe = CONTRACT_TYPE_ERC721 THEN "1" ELSE o.erc1155Balance,
        standard |-> o.probe]

\* getCollectibleInfoFromApi; has = FALSE stands for a rejected promise
GetCollectibleInfoFromApi(networkType, o) ==
  LET standard == IF o.apiErc1155 THEN CONTRACT_TYPE_ERC1155 ELSE CONTRACT_TYPE_ERC721
      none == [has |-> TRUE, name |-> NULL, image |-> NULL, description |-> NULL,
               tokenBalance |-> NULL, standard |-> NULL]
  IN  IF networkType \notin NFT_SUPPORTED_NETWORKS THEN none
      ELSE IF ~o.apiOk THEN NoCollectibleInfo
      ELSE IF ~Truthy(o.apiTokenName) THEN none
      ELSE IF standard = CONTRACT_TYPE_ERC1155 /\ o.erc1155Balance = "throw"
           THEN NoCollectibleInfo
      ELSE [has |-> TRUE, name |-> o.apiTokenName, image |-> o.apiTokenImage,
            description |-> UNDEFINED,
            tokenBalance |-> IF standard = CONTRACT_TYPE_ERC721 THEN "1"
                             ELSE o.erc1155Balance,
            standard |-> standard]

\* getCollectibleInfo
GetCollectibleInfo(contractAddress, detectFromApi, networkType, o) ==
  LET api == GetCollectibleInfoFromApi(networkType, o)
  IN  IF detectFromApi /\ ~api.has THEN NoCollectibleInfo
      ELSE IF detectFromApi /\ Truthy(api.name) /\ Truthy(api.image) THEN api
      ELSE IF ~isAddress(contractAddress) THEN NoCollectibleInfo
      ELSE GetCollectibleInformationFromTokenURI(o)

\* whether _normalizeCollectibleDetails asks getCollectibleInfo
CollectibleNeedsInfo(d) ==
  \/ ~Truthy(d.name)
  \/ ~Truthy(d.image)
  \/ ~Truthy(d.standard)
  \/ d.standard \notin SUPPORTED_NFT_STANDARDS

\* _normalizeCollectibleDetails
NormalizeCollectibleDetails(d, detectFromApi, networkType, o) ==
  LET _contractAddress == IF isAddress(d.address) THEN toChecksumAddress(d.address)
                          ELSE d.address
      base == [address |-> _contractAddress, tokenId |-> d.tokenID, name |-> d.name,
               image |-> d.image, description |-> d.description,
               standard |-> d.standard, tokenBalance |-> d.tokenBalance,
               collectibleIndex |-> _contractAddress \o "_" \o d.tokenID]
      info == GetCollectibleInfo(d.address, detectFromApi, networkType, o)
      merged == IF CollectibleNeedsInfo(d) /\ info.has
                THEN [base EXCEPT !.name = info.name, !.image = info.image,
                                  !.description = info.description,
                                  !.standard = info.standard,
                                  !.tokenBalance = info.tokenBalance]
                ELSE base
  IN  IF Truthy(merged.tokenBalance) THEN merged
      ELSE IF merged.standard = CONTRACT_TYPE_ERC721
           THEN [merged EXCEPT !.tokenBalance = "1"]
      ELSE IF merged.standard = CONTRACT_TYPE_ERC1155 /\ o.erc1155Balance = "throw"
           THEN [merged EXCEPT !.tokenBalance = NULL]
      ELSE merged

\* whether _normalizeCollectibleDetails can await a lookup
CollectibleNeedsLookup(d) ==
  \/ CollectibleNeedsInfo(d)
  \/ (~Truthy(d.tokenBalance) /\ d.standard = CONTRACT_TYPE_ERC1155)

\* addCollectibles: the entries that pass `tokenID && contractAddress`
ValidCollectibles(collectibles) ==
  LET Valid(c) == Truthy(c.tokenID) /\ Truthy(c.contractAddress)
  IN  SelectSeq(collectibles, Valid)

\* a property of options that the source did not set reads undefined
Option(c, k) == IF k \in DOMAIN c.options THEN c.options[k] ELSE UNDEFINED

\* addCollectibles: the arguments of the _normalizeContractDetails calls, one
\* for the first entry of every contractAddress string (collectibleTempIndex)
ContractRequests(collectibles) ==
  LET valid == ValidCollectibles(collectibles)
      First(i) == \A j \in 1..(i - 1) : valid[j].contractAddress # valid[i].contractAddress
      Details(i) == [contractAddress |-> valid[i].contractAddress,
                     contractName |-> Option(valid[i], "contractName"),
                     contractSymbol |-> Option(valid[i], "contractSymbol"),
                     standard |-> Option(valid[i], "standard"),
                     contractImage |-> Option(valid[i], "contractImage"),
                     contractDescription |-> Option(valid[i], "contractDescription")]
  IN  SeqMap(Details, SelectSeq(Indices(valid), First))

\* addCollectibles: the arguments of the _normalizeCollectibleDetails calls,
\* one for the first entry of every `${contractAddress}_${tokenID}` string
CollectibleRequests(collectibles) ==
  LET valid == ValidCollectibles(collectibles)
      Temp(c) == c.contractAddress \o "_" \o c.tokenID
      First(i) == \A j \in 1..(i - 1) : Temp(valid[j]) # Temp(valid[i])
      Details(i) == [address |-> valid[i].contractAddress,
                     name |-> Option(valid[i], "name"),
                     image |-> Option(valid[i], "image"),
                     description |-> Option(valid[i], "description"),
                     standard |-> Option(valid[i], "standard"),
                     tokenBalance |-> Option(valid[i], "tokenBalance"),
                     tokenID |-> valid[i].tokenID]
  IN  SeqMap(Details, SelectSeq(Indices(valid), First))

\* a loop that pushes every contract of allAssetPromises
AcceptedContractsAll(normalized) == normalized

\* addCollectibles: newCollectibleContracts as filled by the loop over allAssetPromises
AcceptedContracts(normalized) ==
  LET Accepted(x) == Truthy(x.name) /\ Truthy(x.symbol)
  IN  SelectSeq(normalized, Accepted)

\* addCollectibles: newCollectibles as filled by the loop over allAssetPromises
AcceptedCollectibles(normalized) ==
  LET Accepted(x) == Truthy(x.name) /\ Truthy(x.standard) /\ Truthy(x.tokenBalance)
  IN  SelectSeq(normalized, Accepted)

AddressOf(x) == x.address

CollectibleIndex(x) == x.collectibleIndex

\* a merge that keeps the new contracts only
mergeContractArraysNewOnly(oldArray, newArray) == newArray

\* mergeContractArrays: newArray, with the old entries whose address is not in
\* it pushed at its end
mergeContractArrays(oldArray, newArray) ==
  LET NotNew(x) == \A i \in 1..Len(newArray) : newArray[i].address # x.address
  IN  newArray \o SelectSeq(ObjectFromArray(oldArray, AddressOf), NotNew)

\* a merge that keeps the new collectibles only
mergeCollectibleArraysNewOnly(oldArray, newArray) == newArray

\* mergeCollectibleArrays: newArray, with the old entries whose
\* collectibleIndex is not in it pushed at its end
mergeCollectibleArrays(oldArray, newArray) ==
  LET NotNew(x) == \A i \in 1..Len(newArray) : newArray[i].collectibleIndex # x.collectibleIndex
  IN  newArray \o SelectSeq(ObjectFromArray(oldArray, CollectibleIndex), NotNew)

\* (all[address] && all[address][networkType]) || []
Projection(all, address, networkType) ==
  IF address \in DOMAIN all /\ networkType \in DOMAIN all[address]
  THEN all[address][networkType] ELSE << >>

\* { [address]: { [networkType]: entries } }: the map without the spread of
\* the entries it had
WithScopeOnly(all, address, networkType, entries) ==
  address :> (networkType :> entries)

\* { ...all, [address]: { ...all[address], [networkType]: entries } }
WithScope(all, address, networkType, entries) ==
  LET addressEntries == IF address \in DOMAIN all THEN all[address] ELSE << >>
  IN  (address :> ((networkType :> entries) @@ addressEntries)) @@ all

-----------------------------------------------------------------------------
(* Bounds and input sets                                                    *)

\* detection cycles that can be in flight at the same time
MaxInFlight == 2

\* detection cycles started in one behaviour
MaxCycles == 2

\* network switches in one behaviour
MaxSwitches == 1

Addresses == {"0xA", "0xB"}

Networks == {MAINNET, BSC_MAINNET}

\* options.interval of the constructor: absent, or a period of its own
ConfiguredIntervals == {0, 30000}

\* a user state of the preferences store without customNfts
NoCustomNfts == [hasCustomNfts |-> FALSE, customNfts |-> << >>]

CustomNfts(list) == [hasCustomNfts |-> TRUE, customNfts |-> list]

\* the states of the preferences store: one user with a custom list, the
\* other with or without one
PreferenceStates ==
  { [a \in Addresses |-> IF a = "0xA" THEN CustomNfts(<<CustomUpper>>) ELSE b] :
    b \in {NoCustomNfts, CustomNfts(<<CustomLower>>)} }

\* outcomes of fetchNftBalance and getNftMetadata for one custom entry
CustomOutcomes == [balance : {"0", "1"}, meta : {MetaFull}]

\* replies of getOpenSeaCollectibles: ok is false when the request fails,
\* items is response.data.assets
OpenseaReplies == { [ok |-> FALSE, items |-> << >>], [ok |-> TRUE, items |-> <<OsAlpha>>] }

\* replies of getCovalentNfts: items is response.data.data.items
CovalentReplies == { [ok |-> FALSE, items |-> << >>], [ok |-> TRUE, items |-> <<CovAlpha>>] }

-----------------------------------------------------------------------------
(* State                                                                    *)

VARIABLES
  network,                    \* network.getNetworkNameFromNetworkCode()
  preferences,                \* preferencesStore.getState()
  selectedAddress,            \* AssetsDetectionController.selectedAddress
  currentNetwork,             \* AssetsDetectionController.currentNetwork
  selectedCustomNfts,         \* AssetsDetectionController.selectedCustomNfts
  handle,                     \* period of the timer of _handle, 0 when none is armed
  liveTimers,                 \* timers armed by setInterval and not cleared since
  assetSelectedAddress,       \* AssetController.selectedAddress
  allCollectibles,            \* store: address -> network -> collectibles
  allCollectibleContracts,    \* store: address -> network -> contracts
  collectibles,               \* store: current view
  collectibleContracts,       \* store: current view
  allTokens,                  \* store: address -> network -> tokens
  tokens,                     \* store: current view
  cycles,                     \* the detectCollectibles calls: position and locals
  running,                    \* the call that runs without a pending lookup, or 0
  cyclesLeft,                 \* detection cycles that can still start
  switchesLeft                \* network switches that can still happen

vars == <<network, preferences, selectedAddress, currentNetwork, selectedCustomNfts,
          handle, liveTimers, assetSelectedAddress, allCollectibles, allCollectibleContracts,
          collectibles, collectibleContracts, allTokens, tokens, cycles, running, cyclesLeft,
          switchesLeft>>

detectionVars == <<selectedAddress, currentNetwork, selectedCustomNfts, handle, liveTimers>>

storeVars == <<assetSelectedAddress, allCollectibles, allCollectibleContracts,
               collectibles, collectibleContracts, allTokens, tokens>>

CycleIds == DOMAIN cycles

\* a detectCollectibles call that has not started
FreeCycle ==
  [pc |-> "free", io |-> FALSE, forceUpdateStore |-> FALSE, owner |-> "", network |-> "",
   userAddress |-> "",
   tokens |-> << >>, balances |-> << >>, customNftArr |-> << >>, customKeys |-> {}, both |-> FALSE,
   osPending |-> FALSE, covPending |-> FALSE, osFailed |-> FALSE, covFailed |-> FALSE,
   osOwner |-> "", covOwner |-> "",
   osNetwork |-> "", covNetwork |-> "", openseaAssets |-> << >>,
   covalentAssets |-> << >>, finalArr |-> << >>, contractRequests |-> << >>,
   collectibleRequests |-> << >>, normalizedContracts |-> << >>,
   normalizedCollectibles |-> << >>, newCollectibleContracts |-> << >>,
   newCollectibles |-> << >>, oldCollectibleContracts |-> << >>,
   oldCollectibles |-> << >>, scopeAddress |-> "", networkType |-> ""]

\* the state after the two constructors, for the preferences the store can
\* hold and the number of cycles and network switches of the behaviour
InitWith(preferenceStates, inFlight, nCycles, nSwitches) ==
  /\ network \in Networks
  /\ preferences \in preferenceStates
  /\ selectedAddress = ""
  /\ currentNetwork = NULL
  /\ selectedCustomNfts = << >>
  /\ handle \in {IF ~isMain THEN 0 ELSE IF i = 0 THEN DEFAULT_INTERVAL ELSE i :
                   i \in ConfiguredIntervals}
  /\ liveTimers = IF isMain THEN 1 ELSE 0
  /\ assetSelectedAddress = ""
  /\ allCollectibles = << >>
  /\ allCollectibleContracts = << >>
  /\ collectibles = << >>
  /\ collectibleContracts = << >>
  /\ allTokens = << >>
  /\ tokens = << >>
  /\ cycles = [c \in 1..inFlight |-> FreeCycle]
  /\ running = 0
  /\ cyclesLeft = nCycles
  /\ switchesLeft = nSwitches

Init == InitWith(PreferenceStates, MaxInFlight, MaxCycles, MaxSwitches)

-----------------------------------------------------------------------------
(* AssetsDetectionController: scheduler                                     *)

\* the slot a new detectCollectibles call takes
Finished(c) == cycles[c].pc \in {"free", "done", "failed"}

FreeSlot == CHOOSE c \in CycleIds : Finished(c) /\ \A d \in 1..(c - 1) : ~Finished(d)

\* a call can take a step when the lookup it awaits can resolve, or when it
\* awaits nothing and so runs on before any other task
CanRun(c) == running = c \/ (running = 0 /\ cycles[c].io)

\* detectCollectibles up to the await of getCustomNfts, for `address` as
\* this.selectedAddress
DetectCollectiblesStart(address) ==
  LET c == FreeSlot
      userState == IF address \in DOMAIN preferences THEN preferences[address]
                   ELSE NoCustomNfts
      currentNetworkTokens == CurrentNetworkTokens(userState.customNfts, network)
  IN  /\ currentNetwork' = network
      /\ cyclesLeft' = cyclesLeft - 1
      /\ IF address = ""
         THEN \* getCustomNfts returns [[], {}] at once
              /\ cycles' = [cycles EXCEPT ![c] =
                   [FreeCycle EXCEPT !.pc = "custom", !.network = network]]
              /\ running' = c
              /\ UNCHANGED selectedCustomNfts
         ELSE IF ~userState.hasCustomNfts
         THEN \* customNfts.map throws: the call rejects
              /\ cycles' = [cycles EXCEPT ![c] =
                   [FreeCycle EXCEPT !.pc = "failed", !.owner = address,
                                     !.network = network]]
              /\ running' = 0
              /\ UNCHANGED selectedCustomNfts
         ELSE /\ cycles' = [cycles EXCEPT ![c] =
                   [FreeCycle EXCEPT !.pc = "custom", !.owner = address,
                                     !.network = network, !.userAddress = address,
                                     !.tokens = currentNetworkTokens,
                                     !.io = (currentNetworkTokens # << >>)]]
              /\ running' = IF currentNetworkTokens # << >> THEN 0 ELSE c
              /\ selectedCustomNfts' = SeqMap(LAMBDA x : x.nft_address, userState.customNfts)

\* detectAssets, for `address` as this.selectedAddress
DetectAssets(address) ==
  IF network \in NFT_SUPPORTED_NETWORKS
  THEN /\ cyclesLeft > 0
       /\ \E c \in CycleIds : Finished(c)
       /\ DetectCollectiblesStart(address)
  ELSE UNCHANGED <<currentNetwork, cyclesLeft, cycles, running, selectedCustomNfts>>

\* a setter that arms a timer without clearing the one of _handle
SetIntervalNoClear(interval) ==
  /\ handle' = IF interval = 0 THEN 0
               ELSE IF isMain THEN interval
               ELSE 0
  /\ liveTimers' = IF interval # 0 /\ isMain THEN liveTimers + 1 ELSE liveTimers

\* set interval: clearInterval(this._handle), then setInterval
SetInterval(interval) ==
  LET cleared == IF handle # 0 THEN liveTimers - 1 ELSE liveTimers
  IN  /\ handle' = IF interval = 0 THEN 0
                   ELSE IF isMain THEN interval
                   ELSE 0
      /\ liveTimers' = IF interval # 0 /\ isMain THEN cleared + 1 ELSE cleared

\* a stopAssetDetection that aborts the calls in flight
StopAssetDetectionAborts ==
  /\ running = 0
  /\ selectedAddress' = ""
  /\ cycles' = [c \in CycleIds |->
                  IF Finished(c) THEN cycles[c]
                  ELSE [cycles[c] EXCEPT !.pc = "failed", !.io = FALSE]]
  /\ UNCHANGED <<network, preferences, currentNetwork, selectedCustomNfts, handle,
                 liveTimers, running, cyclesLeft, switchesLeft>>
  /\ UNCHANGED storeVars

\* stopAssetDetection()
StopAssetDetection ==
  /\ running = 0
  /\ selectedAddress' = ""
  /\ UNCHANGED <<network, preferences, currentNetwork, selectedCustomNfts, handle,
                 liveTimers, cycles, running, cyclesLeft, switchesLeft>>
  /\ UNCHANGED storeVars

\* startAssetDetection(address) with restartAssetDetection
StartAssetDetection(address) ==
  /\ running = 0
  /\ selectedAddress' = address
  /\ IF address = ""
     THEN UNCHANGED <<currentNetwork, cyclesLeft, cycles, running, selectedCustomNfts,
                      handle, liveTimers>>
     ELSE /\ DetectAssets(address)
          /\ SetInterval(DEFAULT_INTERVAL)
  /\ UNCHANGED <<network, preferences, switchesLeft>>
  /\ UNCHANGED storeVars

\* an assignment to `interval` by the owner of the controller
AssignInterval(interval) ==
  /\ running = 0
  /\ SetInterval(interval)
  /\ UNCHANGED <<network, preferences, selectedAddress, currentNetwork, selectedCustomNfts,
                 cycles, running, cyclesLeft, switchesLeft>>
  /\ UNCHANGED storeVars

\* the callback of setInterval
Tick ==
  /\ running = 0
  /\ liveTimers > 0
  /\ DetectAssets(selectedAddress)
  /\ UNCHANGED <<network, preferences, selectedAddress, handle, liveTimers, switchesLeft>>
  /\ UNCHANGED storeVars

\* getCustomNfts(customNfts, true) up to the await of its lookups
GetCustomNftsForced(customNfts) ==
  LET c == FreeSlot
      currentNetworkTokens == CurrentNetworkTokens(customNfts, network)
  IN  IF selectedAddress = ""
      THEN UNCHANGED <<selectedCustomNfts, cycles, running, cyclesLeft>>
      ELSE /\ cyclesLeft > 0
           /\ \E d \in CycleIds : Finished(d)
           /\ cyclesLeft' = cyclesLeft - 1
           /\ selectedCustomNfts' = SeqMap(LAMBDA x : x.nft_address, customNfts)
           /\ cycles' = [cycles EXCEPT ![c] =
                [FreeCycle EXCEPT !.pc = "custom", !.forceUpdateStore = TRUE,
                                  !.owner = selectedAddress, !.network = network,
                                  !.userAddress = selectedAddress, !.tokens = currentNetworkTokens,
                                  !.io = (currentNetworkTokens # << >>)]]
           /\ running' = IF currentNetworkTokens # << >> THEN 0 ELSE c

\* the preferences store is updated while `address` is its selected address
\* and customNfts the list of that user: the callback of
\* preferencesStore.subscribe
PreferencesUpdated(address, customNfts) ==
  /\ running = 0
  /\ preferences' = [preferences EXCEPT ![address] = CustomNfts(customNfts)]
  /\ IF selectedCustomNfts = SeqMap(LAMBDA x : x.nft_address, customNfts)
     THEN UNCHANGED <<selectedCustomNfts, cycles, running, cyclesLeft>>
     ELSE GetCustomNftsForced(customNfts)
  /\ UNCHANGED <<network, selectedAddress, currentNetwork, handle, liveTimers, switchesLeft>>
  /\ UNCHANGED storeVars

-----------------------------------------------------------------------------
(* AssetController: store                                                   *)

\* a setSelectedAddress that leaves the views as they are
SetSelectedAddressKeepsViews(address) ==
  /\ assetSelectedAddress' = address
  /\ UNCHANGED <<collectibleContracts, collectibles, tokens>>
  /\ UNCHANGED <<allCollectibles, allCollectibleContracts, allTokens>>

\* setSelectedAddress(address)
SetSelectedAddress(address) ==
  /\ assetSelectedAddress' = address
  /\ collectibleContracts' = Projection(allCollectibleContracts, address, network)
  /\ collectibles' = Projection(allCollectibles, address, network)
  /\ tokens' = Projection(allTokens, address, network)
  /\ UNCHANGED <<allCollectibles, allCollectibleContracts, allTokens>>

\* the callback of initializeNetworkSubscription, when the network becomes n
SwitchNetwork(n) ==
  /\ running = 0
  /\ n # network
  /\ switchesLeft > 0
  /\ switchesLeft' = switchesLeft - 1
  /\ network' = n
  /\ collectibleContracts' = Projection(allCollectibleContracts, assetSelectedAddress, n)
  /\ collectibles' = Projection(allCollectibles, assetSelectedAddress, n)
  /\ tokens' = Projection(allTokens, assetSelectedAddress, n)
  /\ UNCHANGED <<assetSelectedAddress, allCollectibles, allCollectibleContracts, allTokens>>
  /\ UNCHANGED <<preferences, cycles, running, cyclesLeft>>
  /\ UNCHANGED detectionVars

\* the address addToken stores a token under: isAddress is asked about the
\* local `address`, which is declared and still undefined at that point
TokenAddress(address2) ==
  IF isAddress(UNDEFINED) THEN toChecksumAddress(address2) ELSE address2

\* tokens after addToken: the entry found by findIndex is replaced, or the
\* new entry is pushed
TokensWith(newEntry) ==
  LET previous == {i \in 1..Len(tokens) : tokens[i].address = newEntry.address}
      previousIndex == CHOOSE i \in previous : \A j \in previous : i <= j
  IN  IF previous # {} THEN [tokens EXCEPT ![previousIndex] = newEntry]
      ELSE Append(tokens, newEntry)

\* addToken(address2, symbol, decimals, image)
AddToken(address2, symbol, decimals, image) ==
  LET newEntry == [address |-> TokenAddress(address2), symbol |-> symbol,
                   decimals |-> decimals, image |-> image]
  IN  /\ running = 0
      /\ allTokens' = WithScope(allTokens, assetSelectedAddress, network, TokensWith(newEntry))
      /\ tokens' = TokensWith(newEntry)
      /\ UNCHANGED <<assetSelectedAddress, allCollectibles, allCollectibleContracts,
                     collectibles, collectibleContracts>>
      /\ UNCHANGED <<network, preferences, cycles, running, cyclesLeft, switchesLeft>>
      /\ UNCHANGED detectionVars

-----------------------------------------------------------------------------
(* A detection cycle: detectCollectibles from one await to the next         *)

\* detectCollectibles from the merge of the sources to the await inside
\* addCollectibles(finalArr, false): the locals of the call after that step
AfterProviders(cy) ==
  LET finalArr == FinalArr(cy.customNftArr, cy.customKeys,
                           CollectiblesMap(cy.openseaAssets),
                           CollectiblesMap(cy.covalentAssets), cy.both)
      contractRequests == ContractRequests(finalArr)
      collectibleRequests == CollectibleRequests(finalArr)
  IN  [cy EXCEPT !.pc = "normalize",
                 !.finalArr = finalArr,
                 !.contractRequests = contractRequests,
                 !.collectibleRequests = collectibleRequests,
                 !.io = \/ \E i \in 1..Len(contractRequests) :
                              ContractNeedsLookup(contractRequests[i])
                        \/ \E i \in 1..Len(collectibleRequests) :
                              CollectibleNeedsLookup(collectibleRequests[i])]

\* getCustomNfts resolves with the outcomes outs of its lookups;
\* detectCollectibles goes on to the provider requests
CustomDone(c, outs) ==
  LET cy == cycles[c]
      customNftArr == NonZeroTokens(cy.tokens, outs)
      both == network \in {MAINNET, MATIC}
      osPending == both /\ selectedAddress # ""
      covPending == selectedAddress # "" /\ currentNetwork \in NFT_SUPPORTED_NETWORKS
  IN  /\ cy.pc = "custom"
      /\ ~cy.forceUpdateStore
      /\ CanRun(c)
      /\ cycles' = [cycles EXCEPT ![c] =
           [cy EXCEPT !.pc = "providers",
                      !.balances = [i \in 1..Len(cy.tokens) |-> outs[i].balance],
                      !.customNftArr = customNftArr,
                      !.customKeys = Indexes(customNftArr),
                      !.both = both,
                      !.osPending = osPending,
                      !.covPending = covPending,
                      !.osOwner = IF both THEN selectedAddress ELSE "",
                      !.covOwner = selectedAddress,
                      !.osNetwork = IF osPending THEN currentNetwork ELSE "",
                      !.covNetwork = IF covPending THEN currentNetwork ELSE "",
                      !.io = osPending \/ covPending]]
      /\ running' = IF osPending \/ covPending THEN 0 ELSE c
      /\ IF selectedAddress # ""
         THEN SetSelectedAddress(selectedAddress)
         ELSE UNCHANGED storeVars
      /\ UNCHANGED <<network, preferences, cyclesLeft, switchesLeft>>
      /\ UNCHANGED detectionVars

\* getCustomNfts(customNfts, true) resolves its lookups with the outcomes
\* outs and calls addCollectibles(nonZeroTokens, false), up to the await
\* inside it
CustomListDone(c, outs) ==
  LET cy == cycles[c]
      nonZeroTokens == NonZeroTokens(cy.tokens, outs)
      contractRequests == ContractRequests(nonZeroTokens)
      collectibleRequests == CollectibleRequests(nonZeroTokens)
      io == \/ \E i \in 1..Len(contractRequests) :
                 ContractNeedsLookup(contractRequests[i])
            \/ \E i \in 1..Len(collectibleRequests) :
                 CollectibleNeedsLookup(collectibleRequests[i])
  IN  /\ cy.pc = "custom"
      /\ cy.forceUpdateStore
      /\ CanRun(c)
      /\ cycles' = [cycles EXCEPT ![c] =
           [cy EXCEPT !.pc = "normalize",
                      !.balances = [i \in 1..Len(cy.tokens) |-> outs[i].balance],
                      !.customNftArr = nonZeroTokens,
                      !.customKeys = Indexes(nonZeroTokens),
                      !.finalArr = nonZeroTokens,
                      !.contractRequests = contractRequests,
                      !.collectibleRequests = collectibleRequests,
                      !.io = io]]
      /\ running' = IF io THEN 0 ELSE c
      /\ UNCHANGED <<network, preferences, cyclesLeft, switchesLeft>>
      /\ UNCHANGED detectionVars
      /\ UNCHANGED storeVars

\* a detectCollectibles that merges as soon as one provider answered
ProviderAnsweredFirst(c, cy) ==
  /\ cycles' = [cycles EXCEPT ![c] = AfterProviders(cy)]
  /\ running' = IF AfterProviders(cy).io THEN 0 ELSE c
  /\ UNCHANGED <<network, preferences, cyclesLeft, switchesLeft>>
  /\ UNCHANGED detectionVars
  /\ UNCHANGED storeVars

\* the cycle after one provider answered: merged when the other has too
ProviderAnswered(c, cy) ==
  /\ cycles' = [cycles EXCEPT ![c] =
       IF cy.osPending \/ cy.covPending THEN cy ELSE AfterProviders(cy)]
  /\ running' = IF cy.osPending \/ cy.covPending THEN 0
                ELSE IF AfterProviders(cy).io THEN 0 ELSE c
  /\ UNCHANGED <<network, preferences, cyclesLeft, switchesLeft>>
  /\ UNCHANGED detectionVars
  /\ UNCHANGED storeVars

\* getOwnerCollectibles('opensea') resolves and detectCollectiblesFromOpensea
\* builds its result
OpenseaDone(c, reply) ==
  LET cy == cycles[c]
      apiCollectibles == IF ~reply.ok \/ cy.osNetwork \notin {MAINNET, MATIC} THEN << >>
                         ELSE IF network = MAINNET THEN reply.items
                         ELSE << >>
  IN  /\ cy.pc = "providers"
      /\ cy.osPending
      /\ running = 0
      /\ ProviderAnswered(c, [cy EXCEPT !.osPending = FALSE,
                                        !.osFailed = ~reply.ok,
                                        !.openseaAssets = OpenseaCollectibles(apiCollectibles)])

\* detectCollectiblesFromCovalent after getOwnerCollectibles('covalent')
\* returned apiCollectibles
CovalentAnswered(c, failed, apiCollectibles) ==
  LET cy == cycles[c]
  IN  /\ cy.pc = "providers"
      /\ cy.covPending
      /\ running = 0
      /\ ProviderAnswered(c, [cy EXCEPT !.covPending = FALSE,
                                        !.covFailed = failed,
                                        !.covalentAssets =
                                           CovalentCollectibles(apiCollectibles, cy.network)])

\* an error reaches detectCollectibles, which catches nothing: the call
\* rejects
CycleRejects(c, cy) ==
  /\ cy.pc = "providers"
  /\ running = 0
  /\ cycles' = [cycles EXCEPT ![c] = [cy EXCEPT !.pc = "failed", !.io = FALSE]]
  /\ UNCHANGED <<network, preferences, running, cyclesLeft, switchesLeft>>
  /\ UNCHANGED detectionVars
  /\ UNCHANGED storeVars

\* a getOwnerCollectibles that lets the error of getCovalentNfts through
CovalentDoneRejects(c, reply) ==
  IF reply.ok
  THEN CovalentAnswered(c, FALSE, reply.items)
  ELSE /\ cycles[c].covPending
       /\ CycleRejects(c, [cycles[c] EXCEPT !.covPending = FALSE, !.covFailed = TRUE])

\* getOwnerCollectibles('covalent') resolves, with [] when getCovalentNfts
\* failed, and detectCollectiblesFromCovalent builds its result
CovalentDone(c, reply) ==
  CovalentAnswered(c, ~reply.ok, IF reply.ok THEN reply.items ELSE << >>)

\* both adapters returned without a request (no selected address)
ProvidersSkipped(c) ==
  /\ cycles[c].pc = "providers"
  /\ ~cycles[c].osPending
  /\ ~cycles[c].covPending
  /\ running = c
  /\ ProviderAnswered(c, cycles[c])

\* the contracts whose normalisation awaits a lookup in this call
LookupContracts(cy) ==
  {Lower(cy.contractRequests[i].contractAddress) :
     i \in {j \in 1..Len(cy.contractRequests) : ContractNeedsLookup(cy.contractRequests[j])}}
  \cup
  {Lower(cy.collectibleRequests[i].address) :
     i \in {j \in 1..Len(cy.collectibleRequests) :
              CollectibleNeedsLookup(cy.collectibleRequests[j])}}

\* addCollectibles after Promise.all: chain[a] is what the lookups for
\* contract a answered; the results are filtered, merged with the current
\* view and written to the scope of AssetController.selectedAddress
AddCollectiblesWrite(c, chain) ==
  LET cy == cycles[c]
      Answer(a) == IF Lower(a) \in DOMAIN chain THEN chain[Lower(a)] ELSE ChainGood
      normalizedContracts ==
        SeqMap(LAMBDA d : NormalizeContractDetails(d, FALSE, Answer(d.contractAddress)),
               cy.contractRequests)
      normalizedCollectibles ==
        SeqMap(LAMBDA d : NormalizeCollectibleDetails(d, FALSE, network, Answer(d.address)),
               cy.collectibleRequests)
      newCollectibleContracts == AcceptedContracts(normalizedContracts)
      newCollectibles == AcceptedCollectibles(normalizedCollectibles)
      finalContracts == mergeContractArrays(collectibleContracts, newCollectibleContracts)
      finalCollectibles == mergeCollectibleArrays(collectibles, newCollectibles)
      rejects == \E i \in 1..Len(cy.contractRequests) :
                   NormalizeContractRejects(cy.contractRequests[i], FALSE,
                                            Answer(cy.contractRequests[i].contractAddress))
  IN  /\ cy.pc = "normalize"
      /\ CanRun(c)
      /\ IF rejects
         THEN \* Promise.all rejects: catch (error) { log.error(error) }
              /\ UNCHANGED <<allCollectibleContracts, allCollectibles,
                             collectibleContracts, collectibles>>
              /\ cycles' = [cycles EXCEPT ![c] =
                   [cy EXCEPT !.pc = "done", !.io = FALSE,
                              !.normalizedContracts = normalizedContracts,
                              !.normalizedCollectibles = normalizedCollectibles,
                              !.oldCollectibleContracts = collectibleContracts,
                              !.oldCollectibles = collectibles,
                              !.scopeAddress = assetSelectedAddress,
                              !.networkType = network]]
         ELSE /\ allCollectibleContracts' =
                   WithScope(allCollectibleContracts, assetSelectedAddress, network,
                             finalContracts)
              /\ allCollectibles' =
                   WithScope(allCollectibles, assetSelectedAddress, network, finalCollectibles)
              \* newCollectibleContracts and newCollectibles are the arrays the
              \* merge functions pushed the old entries onto
              /\ collectibleContracts' = finalContracts
              /\ collectibles' = finalCollectibles
              /\ cycles' = [cycles EXCEPT ![c] =
                   [cy EXCEPT !.pc = "done", !.io = FALSE,
                              !.normalizedContracts = normalizedContracts,
                              !.normalizedCollectibles = normalizedCollectibles,
                              !.newCollectibleContracts = newCollectibleContracts,
                              !.newCollectibles = newCollectibles,
                              !.oldCollectibleContracts = collectibleContracts,
                              !.oldCollectibles = collectibles,
                              !.scopeAddress = assetSelectedAddress,
                              !.networkType = network]]
      /\ running' = 0
      /\ UNCHANGED <<network, preferences, assetSelectedAddress, allTokens, tokens, cyclesLeft,
                     switchesLeft>>
      /\ UNCHANGED detectionVars

-----------------------------------------------------------------------------
(* Specification                                                            *)

\* the steps of the detectCollectibles calls in flight, for what the services
\* they ask can answer
CycleStep(customOutcomes, openseaReplies, covalentReplies, chainOracles) ==
  \/ \E c \in CycleIds :
       \E outs \in [1..Len(cycles[c].tokens) -> customOutcomes] : CustomDone(c, outs)
  \/ \E c \in CycleIds : \E reply \in openseaReplies : OpenseaDone(c, reply)
  \/ \E c \in CycleIds : \E reply \in covalentReplies : CovalentDone(c, reply)
  \/ \E c \in CycleIds : ProvidersSkipped(c)
  \/ \E c \in CycleIds :
       \E chain \in [LookupContracts(cycles[c]) -> chainOracles] : AddCollectiblesWrite(c, chain)

\* the steps of the program, for what its callers and the services it asks
\* can supply
Step(addresses, customOutcomes, openseaReplies, covalentReplies, chainOracles) ==
  \/ StopAssetDetection
  \/ \E address \in addresses : StartAssetDetection(address)
  \/ Tick
  \/ \E n \in Networks : SwitchNetwork(n)
  \/ CycleStep(customOutcomes, openseaReplies, covalentReplies, chainOracles)

Next == Step(Addresses \cup {""}, CustomOutcomes, OpenseaReplies, CovalentReplies, {ChainGood})

Spec == Init /\ [][Next]_vars

-----------------------------------------------------------------------------
(* One cycle at a time, with the full range of source results               *)

\* detection cycles started one after the other
SeqCycles == 2

\* network switches in such a behaviour
SeqSwitches == 1

SeqPreferenceStates ==
  { [a \in Addresses |-> IF a = "0xA"
                         THEN CustomNfts(<<CustomUpper, CustomLower, CustomBsc>>)
                         ELSE CustomNfts(<<CustomLower>>)] }

SeqCustomOutcomes == [balance : {"0", "1"}, meta : {MetaFull, MetaThrow}]

SeqOpenseaReplies ==
  { [ok |-> FALSE, items |-> << >>], [ok |-> TRUE, items |-> <<OsAlpha>>],
    [ok |-> TRUE, items |-> <<OsFungible>>], [ok |-> TRUE, items |-> <<OsAlpha, OsGamma>>] }

SeqCovalentReplies ==
  { [ok |-> FALSE, items |-> << >>], [ok |-> TRUE, items |-> <<CovAlpha>>],
    [ok |-> TRUE, items |-> <<CovBeta, CovFungible>>],
    [ok |-> TRUE, items |-> <<CovAlpha, CovBeta>>] }

InitSeq == InitWith(SeqPreferenceStates, 1, SeqCycles, SeqSwitches)

NextSeq == Step(Addresses, SeqCustomOutcomes, SeqOpenseaReplies, SeqCovalentReplies, ChainOracles)

SpecSeq == InitSeq /\ [][NextSeq]_vars

-----------------------------------------------------------------------------
(* One detection cycle, with the full range of source results              *)

\* detection cycles in such a behaviour
MergeCycles == 1

\* network switches in such a behaviour
MergeSwitches == 1

InitMerge == InitWith(SeqPreferenceStates, 1, MergeCycles, MergeSwitches)

SpecMerge == InitMerge /\ [][NextSeq]_vars

-----------------------------------------------------------------------------
(* Cycles of one address that follow each other on one network             *)

\* detection cycles in such a behaviour
DurableCycles == 2

\* one user with a custom list, which names one token twice
DurablePreferenceStates ==
  { [a \in Addresses |-> IF a = "0xA" THEN CustomNfts(<<CustomUpper, CustomLower>>)
                         ELSE NoCustomNfts] }

InitDurable == InitWith(DurablePreferenceStates, 1, DurableCycles, 0)

NextDurable ==
  \/ StopAssetDetection
  \/ StartAssetDetection("0xA")
  \/ Tick
  \/ CycleStep(SeqCustomOutcomes, SeqOpenseaReplies, SeqCovalentReplies, ChainOracles)

SpecDurable == InitDurable /\ [][NextDurable]_vars

-----------------------------------------------------------------------------
(* An owner that also assigns the polling interval                          *)

\* detection cycles in such a behaviour
TimerCycles == 2

\* the values assigned to `interval`
AssignedIntervals == {0, 30000, DEFAULT_INTERVAL}

InitTimer == InitWith(PreferenceStates, 1, TimerCycles, 0)

NextTimer ==
  \/ StopAssetDetection
  \/ \E address \in Addresses : StartAssetDetection(address)
  \/ \E interval \in AssignedIntervals : AssignInterval(interval)
  \/ Tick
  \/ CycleStep(CustomOutcomes, OpenseaReplies, CovalentReplies, {ChainGood})

SpecTimer == InitTimer /\ [][NextTimer]_vars

-----------------------------------------------------------------------------
(* A caller that stops detection before it starts it for another address    *)

\* detection cycles started in such a behaviour
StaleCycles == 2

\* both users keep a custom list
StalePreferenceStates ==
  { [a \in Addresses |-> IF a = "0xA" THEN CustomNfts(<<CustomUpper>>)
                         ELSE CustomNfts(<<CustomLower>>)] }

InitStale == InitWith(StalePreferenceStates, MaxInFlight, StaleCycles, 0)

\* startAssetDetection is called only while detection is stopped, and the
\* network stays as it is
NextStale ==
  \/ StopAssetDetection
  \/ \E address \in Addresses : selectedAddress = "" /\ StartAssetDetection(address)
  \/ Tick
  \/ CycleStep(CustomOutcomes, OpenseaReplies, CovalentReplies, {ChainGood})

SpecStale == InitStale /\ [][NextStale]_vars

-----------------------------------------------------------------------------
(* Calls of addCollectibles that overlap: detection cycles and updates of   *)
(* the custom list of the user                                              *)

\* getCustomNfts and detectCollectibles calls started in such a behaviour
OverlapCycles == 2

\* the user starts with an empty custom list
OverlapPreferenceStates ==
  { [a \in Addresses |-> IF a = "0xA" THEN CustomNfts(<< >>) ELSE NoCustomNfts] }

\* the lists the user's custom list is set to
OverlapCustomLists == { << >>, <<CustomUpper>> }

OverlapOpenseaReplies ==
  { [ok |-> FALSE, items |-> << >>], [ok |-> TRUE, items |-> <<OsGamma>>] }

OverlapCovalentReplies ==
  { [ok |-> FALSE, items |-> << >>], [ok |-> TRUE, items |-> <<CovAlpha>>],
    [ok |-> TRUE, items |-> <<CovBeta>>] }

InitOverlap == InitWith(OverlapPreferenceStates, MaxInFlight, OverlapCycles, 0)

NextOverlap ==
  \/ StartAssetDetection("0xA")
  \/ Tick
  \/ \E customNfts \in OverlapCustomLists : PreferencesUpdated("0xA", customNfts)
  \/ \E c \in CycleIds :
       \E outs \in [1..Len(cycles[c].tokens) -> CustomOutcomes] : CustomListDone(c, outs)
  \/ CycleStep(CustomOutcomes, OverlapOpenseaReplies, OverlapCovalentReplies, {ChainGood})

SpecOverlap == InitOverlap /\ [][NextOverlap]_vars

-----------------------------------------------------------------------------
(* A wallet that adds tokens while detection runs and the network changes   *)

\* detection cycles in such a behaviour
ViewCycles == 1

\* network switches in such a behaviour
ViewSwitches == 1

\* the addresses addToken is called with: one contract in two letter cases
TokenAddresses == {"0xAA", "0xaa"}

\* every lookup and both providers answer
ViewCustomOutcomes == [balance : {"1"}, meta : {MetaFull}]

ViewOpenseaReplies == { [ok |-> TRUE, items |-> <<OsAlpha>>] }

ViewCovalentReplies == { [ok |-> TRUE, items |-> <<CovAlpha>>] }

InitView == InitWith(DurablePreferenceStates, 1, ViewCycles, ViewSwitches)

NextView ==
  \/ StartAssetDetection("0xA")
  \/ Tick
  \/ \E n \in Networks : SwitchNetwork(n)
  \/ \E address2 \in TokenAddresses : AddToken(address2, "TKA", "18", "timg")
  \/ CycleStep(ViewCustomOutcomes, ViewOpenseaReplies, ViewCovalentReplies, {ChainGood})

SpecView == InitView /\ [][NextView]_vars

-----------------------------------------------------------------------------
(* Writes of addCollectibles into a store that holds other scopes           *)

\* detection cycles started in such a behaviour
FrameCycles == 2

\* network switches in such a behaviour
FrameSwitches == 1

InitFrame == InitWith(DurablePreferenceStates, 1, FrameCycles, FrameSwitches)

\* detection is started for either address while it is stopped, the user's
\* custom list is updated, the wallet adds a token and changes the network
NextFrame ==
  \/ StopAssetDetection
  \/ \E address \in Addresses : selectedAddress = "" /\ StartAssetDetection(address)
  \/ Tick
  \/ \E n \in Networks : SwitchNetwork(n)
  \/ AddToken("0xAA", "TKA", "18", "timg")
  \/ PreferencesUpdated("0xA", <<CustomUpper>>)
  \/ \E c \in CycleIds :
       \E outs \in [1..Len(cycles[c].tokens) -> ViewCustomOutcomes] : CustomListDone(c, outs)
  \/ CycleStep(ViewCustomOutcomes, ViewOpenseaReplies, ViewCovalentReplies, {ChainGood})

SpecFrame == InitFrame /\ [][NextFrame]_vars

-----------------------------------------------------------------------------
(* A wallet that only adds tokens and changes the network                   *)

\* network switches in such a behaviour
TokenSwitches == 2

TokenSymbols == {"TKA", "TKB"}

TokenDecimals == {"18", "6"}

InitTokens == InitWith(PreferenceStates, 1, 0, TokenSwitches)

NextTokens ==
  \/ \E n \in Networks : SwitchNetwork(n)
  \/ \E address2 \in TokenAddresses : \E symbol \in TokenSymbols :
       \E decimals \in TokenDecimals : AddToken(address2, symbol, decimals, "timg")

SpecTokens == InitTokens /\ [][NextTokens]_vars

-----------------------------------------------------------------------------
(* Token balances: sources that report none, or one other than 1            *)

\* detection cycles in such a behaviour
BalanceCycles == 1

BalanceOpenseaReplies ==
  { [ok |-> FALSE, items |-> << >>], [ok |-> TRUE, items |-> <<OsDelta>>],
    [ok |-> TRUE, items |-> <<OsAlpha, OsGamma>>] }

BalanceCovalentReplies ==
  { [ok |-> FALSE, items |-> << >>], [ok |-> TRUE, items |-> <<CovEpsilon>>],
    [ok |-> TRUE, items |-> <<CovAlpha>>] }

\* the chain answers, getErc1155Balance with a balance or with an error
BalanceChainOracles == {ChainGood, ChainMulti, ChainMultiNoBalance}

InitBalance == InitWith(DurablePreferenceStates, 1, BalanceCycles, 0)

NextBalance ==
  \/ StartAssetDetection("0xA")
  \/ Tick
  \/ CycleStep(CustomOutcomes, BalanceOpenseaReplies, BalanceCovalentReplies,
               BalanceChainOracles)

SpecBalance == InitBalance /\ [][NextBalance]_vars

-----------------------------------------------------------------------------
(* Detection that is stopped at any moment, with lookups that all return    *)

\* detection cycles in such a behaviour
StopCycles == 1

InitStop == InitWith(PreferenceStates, 1, StopCycles, 0)

\* the steps of the cycles in flight
StopCycleStep ==
  CycleStep(ViewCustomOutcomes, ViewOpenseaReplies, ViewCovalentReplies, {ChainGood})

NextStop ==
  \/ StopAssetDetection
  \/ \E address \in Addresses : StartAssetDetection(address)
  \/ Tick
  \/ StopCycleStep

\* every lookup and request a cycle awaits returns in the end
FairStop == InitStop /\ [][NextStop]_vars /\ WF_vars(StopCycleStep)

-----------------------------------------------------------------------------
(* Properties                                                               *)

\* the index key lower(contractAddress) + "_" + tokenID of a stored collectible
StoredKey(x) == Lower(x.address) \o "_" \o x.tokenId

StoredKeys(arr) == {StoredKey(arr[i]) : i \in 1..Len(arr)}

\* the entries of arr with index key k
WithKey(arr, k) ==
  LET Has(x) == IndexOf(x) = k
  IN  SelectSeq(arr, Has)

\* cycle c has handed its final list to addCollectibles
Merged(c) == cycles[c].pc \in {"normalize", "done"}

\* this step is the write of the addCollectibles call of cycle c
Writes(c) == cycles[c].pc = "normalize" /\ cycles'[c].pc = "done"

\* the index keys of the results cycle cy fetched for the address it started for
FetchedForOwner(cy) ==
  Indexes(cy.customNftArr)
  \cup (IF cy.covOwner = cy.owner THEN Indexes(cy.covalentAssets) ELSE {})
  \cup (IF cy.osOwner = cy.owner THEN Indexes(cy.openseaAssets) ELSE {})

\* C1: when a cycle started for address A completes after detection was
\* stopped and started for another address B, its write adds none of the
\* index keys it fetched for A to the collectibles of B's scope or to the
\* view shown for B.
C1_StaleCycleIsolated ==
  [][\A c \in CycleIds :
       (/\ Writes(c)
        /\ cycles[c].owner # ""
        /\ selectedAddress \notin {"", cycles[c].owner}
        /\ cycles'[c].scopeAddress = selectedAddress)
       => LET added == StoredKeys(Projection(allCollectibles', selectedAddress, network))
                         \ StoredKeys(Projection(allCollectibles, selectedAddress, network))
          IN  /\ added \cap FetchedForOwner(cycles[c]) = {}
              /\ (StoredKeys(collectibles') \ StoredKeys(collectibles))
                    \cap FetchedForOwner(cycles[c]) = {}]_vars

\* C2: in the write of an addCollectibles call, a collectible stored for the
\* scope before the call whose index is not among the collectibles accepted
\* in the call is absent from the scope and from the view after it.
C2_AbsentCollectiblesPruned ==
  [][\A c \in CycleIds :
       Writes(c) =>
         LET before == Projection(allCollectibles, assetSelectedAddress, network)
             accepted == {cycles'[c].newCollectibles[i].collectibleIndex :
                            i \in 1..Len(cycles'[c].newCollectibles)}
             after == Projection(allCollectibles', assetSelectedAddress, network)
         IN  \A i \in 1..Len(before) :
               before[i].collectibleIndex \notin accepted
               => /\ \A j \in 1..Len(after) :
                       after[j].collectibleIndex # before[i].collectibleIndex
                  /\ \A j \in 1..Len(collectibles') :
                       collectibles'[j].collectibleIndex # before[i].collectibleIndex]_vars

\* the index keys of the custom entries of cycle cy whose balance was 0
ZeroBalanceKeys(cy) ==
  {CollectibleIndexOf(cy.tokens[i].nft_address, cy.tokens[i].nft_id) :
     i \in {j \in 1..Len(cy.balances) : cy.balances[j] = "0"}}

\* C3: once a cycle completes, a custom entry whose balance was 0 in that
\* cycle (and that no provider reported in it) is not stored under its index
\* key in the scope the cycle wrote.
C3_ZeroBalanceCustomAbsent ==
  [][\A c \in CycleIds :
       Writes(c) =>
         \A k \in ZeroBalanceKeys(cycles[c]) \ Indexes(cycles[c].finalArr) :
           k \notin StoredKeys(Projection(allCollectibles', assetSelectedAddress, network))]_vars

\* C4: for every index key of the custom set of a cycle, the list handed to
\* addCollectibles holds exactly the custom entries of that key, unchanged,
\* and no entry of a provider.
C4_CustomOverride ==
  \A c \in CycleIds :
    Merged(c) =>
      \A k \in cycles[c].customKeys :
        WithKey(cycles[c].finalArr, k) = WithKey(cycles[c].customNftArr, k)

\* a cycle whose custom key was also returned by both providers
C4_Witness ==
  \E c \in CycleIds :
    /\ Merged(c)
    /\ cycles[c].customKeys \cap Indexes(cycles[c].openseaAssets)
         \cap Indexes(cycles[c].covalentAssets) # {}

\* C5: when both providers apply and Provider-B returned an accepted item,
\* every Provider-A entry whose key is neither in Provider-B's result nor in
\* the custom set is in the list handed to addCollectibles.
C5_ProviderAOnlyKept ==
  \A c \in CycleIds :
    (Merged(c) /\ cycles[c].both /\ cycles[c].openseaAssets # << >>) =>
      \A i \in 1..Len(cycles[c].covalentAssets) :
        IndexOf(cycles[c].covalentAssets[i])
            \notin Indexes(cycles[c].openseaAssets) \cup cycles[c].customKeys
        => cycles[c].covalentAssets[i] \in Range(cycles[c].finalArr)

\* the keys both providers returned in cycle cy and the custom set lacks
SharedKeys(cy) ==
  IF cy.both
  THEN (Indexes(cy.openseaAssets) \cap Indexes(cy.covalentAssets)) \ cy.customKeys
  ELSE {}

\* the last entry of arr with index key k
LastWithKey(arr, k) == WithKey(arr, k)[Len(WithKey(arr, k))]

\* C6: for a key both providers returned (not a custom key), the merged
\* entry handed to addCollectibles has Provider-B's contract address and
\* token id and Provider-B's value in every option Provider-B set non-empty.
C6_ProviderBFieldsWin ==
  \A c \in CycleIds :
    Merged(c) =>
      \A k \in SharedKeys(cycles[c]) :
        LET b == LastWithKey(cycles[c].openseaAssets, k)
            merged == WithKey(cycles[c].finalArr, k)
        IN  /\ Len(merged) = 1
            /\ merged[1].contractAddress = b.contractAddress
            /\ merged[1].tokenID = b.tokenID
            /\ \A f \in DOMAIN b.options :
                 Truthy(b.options[f]) => merged[1].options[f] = b.options[f]

\* a merged entry in which Provider-A and Provider-B disagreed on a field
C6_Witness ==
  \E c \in CycleIds :
    /\ Merged(c)
    /\ \E k \in SharedKeys(cycles[c]) :
         LET a == LastWithKey(cycles[c].covalentAssets, k)
             b == LastWithKey(cycles[c].openseaAssets, k)
         IN  /\ Truthy(b.options.contractName)
             /\ a.options.contractName # b.options.contractName

\* C7: for a key both providers returned (not a custom key), every option
\* that Provider-B's entry carries empty and Provider-A's entry non-empty has
\* Provider-A's value in the merged entry.
C7_EmptyFieldsFallBack ==
  \A c \in CycleIds :
    Merged(c) =>
      \A k \in SharedKeys(cycles[c]) :
        LET a == LastWithKey(cycles[c].covalentAssets, k)
            b == LastWithKey(cycles[c].openseaAssets, k)
            merged == WithKey(cycles[c].finalArr, k)
        IN  \A f \in DOMAIN b.options \cap DOMAIN a.options :
              (~Truthy(b.options[f]) /\ Truthy(a.options[f]))
              => \A i \in 1..Len(merged) : merged[i].options[f] = a.options[f]

\* C8: when Provider-B does not apply or its accepted result is empty, the
\* list handed to addCollectibles is the custom entries followed by one entry
\* for each Provider-A key outside the custom set, as Provider-A produced it.
C8_FallbackToProviderA ==
  \A c \in CycleIds :
    (Merged(c) /\ (~cycles[c].both \/ cycles[c].openseaAssets = << >>)) =>
      LET cy == cycles[c]
          rest == SubSeq(cy.finalArr, Len(cy.customNftArr) + 1, Len(cy.finalArr))
      IN  /\ Len(cy.finalArr) >= Len(cy.customNftArr)
          /\ SubSeq(cy.finalArr, 1, Len(cy.customNftArr)) = cy.customNftArr
          /\ Indexes(rest) = Indexes(cy.covalentAssets) \ cy.customKeys
          /\ Len(rest) = Cardinality(Indexes(rest))
          /\ \A i \in 1..Len(rest) :
               rest[i] = LastWithKey(cy.covalentAssets, IndexOf(rest[i]))

\* a cycle on a network with both providers in which Provider-B returned
\* nothing and Provider-A returned a custom key and another key
C8_Witness ==
  \E c \in CycleIds :
    /\ Merged(c)
    /\ cycles[c].both
    /\ cycles[c].openseaAssets = << >>
    /\ cycles[c].customKeys \cap Indexes(cycles[c].covalentAssets) # {}
    /\ Indexes(cycles[c].covalentAssets) \ cycles[c].customKeys # {}

\* C9: every stored sequence of collectibles holds at most one entry per
\* index key.
C9_IndexKeyUnique ==
  \A a \in DOMAIN allCollectibles :
    \A n \in DOMAIN allCollectibles[a] :
      \A i, j \in 1..Len(allCollectibles[a][n]) :
        StoredKey(allCollectibles[a][n][i]) = StoredKey(allCollectibles[a][n][j]) => i = j

\* C10: in the write of an addCollectibles call, a contract stored for the
\* scope before the call whose address is not among the contracts accepted in
\* the call is still stored for that address after it, as it was stored
\* before, and for an address among them only the accepted entries are stored.
C10_ContractsDurable ==
  [][\A c \in CycleIds :
       Writes(c) =>
         LET before == Projection(allCollectibleContracts, assetSelectedAddress, network)
             new == cycles'[c].newCollectibleContracts
             accepted == {new[i].address : i \in 1..Len(new)}
             after == Projection(allCollectibleContracts', assetSelectedAddress, network)
         IN  /\ \A i \in 1..Len(before) :
                  before[i].address \notin accepted
                  => \E j \in 1..Len(after) :
                       /\ after[j].address = before[i].address
                       /\ after[j] \in Range(before)
             /\ \A j \in 1..Len(after) :
                  after[j].address \in accepted => after[j] \in Range(new)]_vars

\* a stored contract that a later addCollectibles call did not accept again,
\* next to one the call did accept
C10_Witness ==
  \E c \in CycleIds :
    /\ cycles[c].pc = "done"
    /\ LET new == cycles[c].newCollectibleContracts
           accepted == {new[i].address : i \in 1..Len(new)}
           old == cycles[c].oldCollectibleContracts
       IN  /\ accepted # {}
           /\ \E i \in 1..Len(old) : old[i].address \notin accepted
           /\ \E i \in 1..Len(old) : old[i].address \in accepted

\* C11: the step in which stopAssetDetection clears the active address
\* leaves no repeating timer armed.
C11_StopCancelsTimer ==
  [][(selectedAddress # "" /\ selectedAddress' = "") => liveTimers' = 0]_vars

\* C12: a detection cycle that a tick started while no address was active
\* changes nothing in the store when it reaches addCollectibles with still no
\* address active.
C12_TickNoOpOutsideActive ==
  [][\A c \in CycleIds :
       (Writes(c) /\ cycles[c].owner = "" /\ selectedAddress = "")
       => UNCHANGED <<allCollectibles, allCollectibleContracts,
                      collectibles, collectibleContracts>>]_vars

\* the detectCollectibles calls that have started and not yet returned
InFlight == {c \in CycleIds : cycles[c].pc \in {"custom", "providers", "normalize"}}

\* C13: at most one detection cycle is in flight at any time.
C13_CyclesSerialized == Cardinality(InFlight) <= 1

\* C16: no detectCollectibles call ends with an error that nothing caught.
C16_NoUncaughtError == \A c \in CycleIds : cycles[c].pc # "failed"

\* C15: at most one repeating timer is live.
C15_AtMostOneTimer == liveTimers <= 1

\* the timer was armed again while one was live: detection started for an
\* address after the constructor armed the first timer
C15_Witness == selectedAddress # "" /\ liveTimers = 1 /\ handle = DEFAULT_INTERVAL

\* C17: a cycle in which the request of a provider failed does not end with
\* an error; the adapter of the failed provider yields nothing, and the list
\* handed to addCollectibles holds the custom entries and the entries of the
\* provider that answered whose keys are not custom keys.
C17_ProgressUnderTransportFailure ==
  \A c \in CycleIds :
    LET cy == cycles[c]
        NotCustom(arr) == {x \in Range(arr) : IndexOf(x) \notin cy.customKeys}
    IN  /\ (cy.covFailed \/ cy.osFailed) => cy.pc # "failed"
        /\ cy.covFailed => cy.covalentAssets = << >>
        /\ cy.osFailed => cy.openseaAssets = << >>
        /\ (Merged(c) /\ cy.covFailed /\ ~cy.osFailed)
             => Range(cy.finalArr) = Range(cy.customNftArr) \cup NotCustom(cy.openseaAssets)
        /\ (Merged(c) /\ cy.osFailed /\ ~cy.covFailed)
             => Range(cy.finalArr) = Range(cy.customNftArr) \cup NotCustom(cy.covalentAssets)
        /\ (Merged(c) /\ cy.osFailed /\ cy.covFailed) => cy.finalArr = cy.customNftArr

\* a cycle that reached addCollectibles with the entries of OpenSea and of
\* the custom list although the request to Covalent had failed
C17_Witness ==
  \E c \in CycleIds :
    /\ Merged(c)
    /\ cycles[c].covFailed
    /\ cycles[c].customNftArr # << >>
    /\ \E x \in Range(cycles[c].openseaAssets) :
         IndexOf(x) \notin cycles[c].customKeys /\ x \in Range(cycles[c].finalArr)

\* C18: the write of an addCollectibles call completes, and every item of
\* the batch whose own normalisation was accepted is stored for the scope and
\* shown in the view after it, whatever happened to the contracts of the
\* batch.
C18_BatchSurvivesProbeFailure ==
  [][\A c \in CycleIds :
       Writes(c) =>
         LET normalized == cycles'[c].normalizedCollectibles
             stored == Projection(allCollectibles', assetSelectedAddress, network)
         IN  \A i \in 1..Len(normalized) :
               (/\ Truthy(normalized[i].name)
                /\ Truthy(normalized[i].standard)
                /\ Truthy(normalized[i].tokenBalance))
               => /\ normalized[i] \in Range(stored)
                  /\ normalized[i] \in Range(collectibles')]_vars

\* a completed call in which the standard probe of one contract failed, so
\* that its normalisation returned {}, and an item of another contract was
\* stored
C18_Witness ==
  \E c \in CycleIds :
    /\ cycles[c].pc = "done"
    /\ \E i \in 1..Len(cycles[c].normalizedContracts) :
         cycles[c].normalizedContracts[i] = NoContractInfo
    /\ cycles[c].newCollectibles # << >>
    /\ Range(cycles[c].newCollectibles) \subseteq Range(collectibles)

\* C19: every collectible stored in a scope has a contract of the same
\* address stored in allCollectibleContracts for that scope.
C19_StoredCollectibleHasContract ==
  \A a \in DOMAIN allCollectibles :
    \A n \in DOMAIN allCollectibles[a] :
      \A i \in 1..Len(allCollectibles[a][n]) :
        \E j \in 1..Len(Projection(allCollectibleContracts, a, n)) :
          Projection(allCollectibleContracts, a, n)[j].address = allCollectibles[a][n][i].address

\* C20: every contract held in allCollectibleContracts and in the
\* collectibleContracts view has a non-empty name and a non-empty symbol.
C20_StoredContractsValid ==
  /\ \A a \in DOMAIN allCollectibleContracts :
       \A n \in DOMAIN allCollectibleContracts[a] :
         \A i \in 1..Len(allCollectibleContracts[a][n]) :
           /\ Truthy(allCollectibleContracts[a][n][i].name)
           /\ Truthy(allCollectibleContracts[a][n][i].symbol)
  /\ \A i \in 1..Len(collectibleContracts) :
       /\ Truthy(collectibleContracts[i].name)
       /\ Truthy(collectibleContracts[i].symbol)

\* a call that turned a contract down for its empty symbol and stored
\* another one
C20_Witness ==
  \E c \in CycleIds :
    /\ cycles[c].pc = "done"
    /\ \E i \in 1..Len(cycles[c].normalizedContracts) :
         /\ Truthy(cycles[c].normalizedContracts[i].name)
         /\ ~Truthy(cycles[c].normalizedContracts[i].symbol)
    /\ cycles[c].newCollectibleContracts # << >>
    /\ collectibleContracts # << >>

\* the addresses of the contracts of arr
ContractAddresses(arr) == {arr[i].address : i \in 1..Len(arr)}

C21_ViewIsProjection ==
  /\ collectibles = Projection(allCollectibles, assetSelectedAddress, network)
  /\ collectibleContracts = Projection(allCollectibleContracts, assetSelectedAddress, network)
  /\ tokens = Projection(allTokens, assetSelectedAddress, network)

\* the address was changed to a scope that holds collectibles, contracts and
\* tokens, while another scope holds others
C21_Witness ==
  /\ collectibles # << >>
  /\ collectibleContracts # << >>
  /\ tokens # << >>
  /\ \E a \in DOMAIN allTokens :
       /\ a # assetSelectedAddress
       /\ \E n \in DOMAIN allTokens[a] : allTokens[a][n] # tokens

\* C30: the tokens view and every scope of allTokens hold at most one entry
\* per token contract, letter case of the address aside.
C30_TokenIdentity ==
  /\ \A i, j \in 1..Len(tokens) :
       Lower(tokens[i].address) = Lower(tokens[j].address) => i = j
  /\ \A a \in DOMAIN allTokens :
       \A n \in DOMAIN allTokens[a] :
         \A i, j \in 1..Len(allTokens[a][n]) :
           Lower(allTokens[a][n][i].address) = Lower(allTokens[a][n][j].address) => i = j

\* the sequences a second addCollectibles call with the results of call c
\* would store, right after the write of c
RewrittenCollectibles(c) == mergeCollectibleArrays(collectibles', cycles'[c].newCollectibles)

RewrittenContracts(c) ==
  mergeContractArrays(collectibleContracts', cycles'[c].newCollectibleContracts)

\* the same call made again would leave both sequences as they are
RewriteChangesNothing ==
  [][\A c \in CycleIds :
       Writes(c) => /\ RewrittenCollectibles(c) = collectibles'
                    /\ RewrittenContracts(c) = collectibleContracts']_vars

\* C22: after a write of addCollectibles, the same call made again with the
\* same results would store the same collectible sequence and the same
\* contract sequence for the scope, and these hold no index key and no
\* contract address twice.
C22_Idempotent ==
  [][\A c \in CycleIds :
       Writes(c) =>
         /\ RewrittenCollectibles(c) = collectibles'
         /\ RewrittenContracts(c) = collectibleContracts'
         /\ \A i, j \in 1..Len(RewrittenCollectibles(c)) :
              RewrittenCollectibles(c)[i].collectibleIndex
                = RewrittenCollectibles(c)[j].collectibleIndex => i = j
         /\ \A i, j \in 1..Len(RewrittenContracts(c)) :
              RewrittenContracts(c)[i].address = RewrittenContracts(c)[j].address => i = j]_vars

\* the contract items the Covalent replies are made of
CovalentItems == {CovAlpha, CovBeta, CovFungible}

\* "<contract_name> (<prefix>1155)" or "<contract_name> (<prefix>721)"
ContractLabel(contractName, networkType, standard) ==
  contractName \o " (" \o (IF networkType = BSC_MAINNET THEN "BEP" ELSE "ERC")
    \o (IF standard = CONTRACT_TYPE_ERC1155 THEN "1155" ELSE "721") \o ")"

\* C28: every collectible detectCollectiblesFromCovalent built carries the
\* contract label "<contract_name> (<prefix><721|1155>)" of its item, the
\* standard being the one of its own record.
C28_CovalentContractLabel ==
  \A c \in CycleIds :
    \A i \in 1..Len(cycles[c].covalentAssets) :
      LET x == cycles[c].covalentAssets[i]
      IN  \E item \in CovalentItems :
            /\ item.contract_address = x.contractAddress
            /\ x.options.contractName
                 = ContractLabel(item.contract_name, cycles[c].network, x.options.standard)

\* the field of a custom collectible the claim expects: the caller's value
\* when there is one, the value of the metadata lookup otherwise
KeptOrFilled(supplied, looked) == IF Truthy(supplied) THEN supplied ELSE looked

\* C29: the collectible built from a custom entry that passed the balance
\* check keeps each of description, image and name the caller supplied, and
\* takes the others from the metadata lookup.
C29_CustomFieldFilling ==
  \A c \in CycleIds :
    \A i \in 1..Len(cycles[c].customNftArr) :
      LET x == cycles[c].customNftArr[i]
      IN  \E j \in 1..Len(cycles[c].tokens) :
            LET t == cycles[c].tokens[j]
            IN  /\ t.nft_address = x.contractAddress
                /\ t.nft_id = x.tokenID
                /\ x.options.description = KeptOrFilled(t.description, MetaFull.decription)
                /\ x.options.image = KeptOrFilled(t.nft_image_link, MetaFull.nftImageLink)
                /\ x.options.contractName = KeptOrFilled(t.nft_name, MetaFull.nftName)

\* the balances getErc1155Balance returns when it succeeds
Erc1155Balances == {o.erc1155Balance : o \in ChainOracles} \ {"throw"}

\* C24: an ERC1155 collectible that reached _normalizeCollectibleDetails
\* without a balance leaves it with a balance getErc1155Balance returned, or
\* with null, and is stored by the call when it has a balance, a name and a
\* standard.
C24_Erc1155BalanceResolved ==
  [][\A c \in CycleIds :
       Writes(c) =>
         \A i \in 1..Len(cycles'[c].normalizedCollectibles) :
           LET d == cycles[c].collectibleRequests[i]
               n == cycles'[c].normalizedCollectibles[i]
           IN  (~Truthy(d.tokenBalance) /\ n.standard = CONTRACT_TYPE_ERC1155)
               => /\ n.tokenBalance \in Erc1155Balances \cup {NULL}
                  /\ (n.tokenBalance \in Erc1155Balances /\ Truthy(n.name))
                       => n \in Range(collectibles')]_vars

\* C25: every stored collectible whose standard is ERC721 has the token
\* balance 1.
C25_Erc721BalanceIsOne ==
  /\ \A i \in 1..Len(collectibles) :
       collectibles[i].standard = CONTRACT_TYPE_ERC721 => collectibles[i].tokenBalance = "1"
  /\ \A a \in DOMAIN allCollectibles :
       \A n \in DOMAIN allCollectibles[a] :
         \A i \in 1..Len(allCollectibles[a][n]) :
           allCollectibles[a][n][i].standard = CONTRACT_TYPE_ERC721
             => allCollectibles[a][n][i].tokenBalance = "1"

\* C23: a detection cycle reaches addCollectibles only from the step at
\* which the last of its provider requests returned, its custom lookups done
\* before, and the stored collectibles and contracts change only in the one
\* step in which a cycle that was inside addCollectibles completes it.
C23_FanInBeforeWrite ==
  [][/\ \A c \in CycleIds :
          (cycles[c].pc # "normalize" /\ cycles'[c].pc = "normalize")
          => /\ cycles[c].pc = "providers"
             /\ Len(cycles[c].balances) = Len(cycles[c].tokens)
             /\ ~cycles'[c].osPending
             /\ ~cycles'[c].covPending
     /\ (\/ allCollectibles' # allCollectibles
         \/ allCollectibleContracts' # allCollectibleContracts)
        => \E c \in CycleIds :
             /\ Writes(c)
             /\ \A d \in CycleIds \ {c} : cycles'[d] = cycles[d]]_vars

\* a cycle that wrote after its custom lookups and both providers had
\* brought entries
C23_Witness ==
  \E c \in CycleIds :
    /\ cycles[c].pc = "done"
    /\ cycles[c].customNftArr # << >>
    /\ cycles[c].openseaAssets # << >>
    /\ cycles[c].covalentAssets # << >>
    /\ cycles[c].newCollectibles # << >>
    /\ StoredKeys(cycles[c].newCollectibles) \subseteq StoredKeys(collectibles)
    /\ Cardinality(StoredKeys(cycles[c].newCollectibles)) > 1

\* C26: a detection cycle that is in flight while detection is stopped goes
\* on: it completes addCollectibles, whose write is the step that ends it.
C26_InFlightSurvivesStop ==
  \A c \in {1} : (~Finished(c)) ~> (cycles[c].pc = "done")

\* a cycle started for an address met the stop before its provider requests
\* and still stored its custom entries
C26_Witness ==
  \E c \in CycleIds :
    /\ cycles[c].pc = "done"
    /\ cycles[c].owner # ""
    /\ cycles[c].covOwner = ""
    /\ selectedAddress = ""
    /\ cycles[c].newCollectibles # << >>
    /\ Range(cycles[c].newCollectibles) \subseteq Range(collectibles)

\* C27: a startAssetDetection call that takes detection out of the stopped
\* state sets the address, starts one cycle at once and leaves one timer
\* armed, whose period is the one the timer had since construction.
C27_StartArmsConfiguredInterval ==
  [][(selectedAddress = "" /\ selectedAddress' # "")
       => /\ cyclesLeft' = cyclesLeft - 1
          /\ liveTimers' = 1
          /\ handle' = handle]_vars

\* C31: a detection cycle started for an address and ended by its
\* addCollectibles call used one owner and one network throughout: the
\* custom fetch, the OpenSea request and the Covalent request were made for
\* the address and the network the cycle started with, and that address and
\* network are the scope the write went to.
C31_SingleScopePerCycle ==
  \A c \in CycleIds :
    LET cy == cycles[c]
    IN  (cy.pc = "done" /\ ~cy.forceUpdateStore /\ cy.owner # "")
        => /\ cy.userAddress = cy.owner
           /\ cy.covOwner = cy.owner
           /\ (cy.both => cy.osOwner = cy.owner)
           /\ (cy.covPending => cy.covNetwork = cy.network)
           /\ (cy.osPending => cy.osNetwork = cy.network)
           /\ cy.scopeAddress = cy.owner
           /\ cy.networkType = cy.network

\* the addresses and networks that one of two maps has an entry for
ScopeAddresses(all, allAfter) == DOMAIN all \cup DOMAIN allAfter

ScopeNetworks(all, allAfter) ==
  Networks \cup UNION {DOMAIN all[a] : a \in DOMAIN all}
           \cup UNION {DOMAIN allAfter[a] : a \in DOMAIN allAfter}

\* every scope of the map other than (address, networkType) holds after the
\* step what it held before, and no address but this one is new in the map
OnlyScopeChanged(all, allAfter, address, networkType) ==
  /\ DOMAIN all \subseteq DOMAIN allAfter
  /\ DOMAIN allAfter \subseteq DOMAIN all \cup {address}
  /\ \A a \in ScopeAddresses(all, allAfter) :
       \A n \in ScopeNetworks(all, allAfter) :
         <<a, n>> # <<address, networkType>>
         => Projection(allAfter, a, n) = Projection(all, a, n)

====
